---- MODULE Spec2Model ----
(***************************************************************************)
(* A model of the SharePoint client adapter (app/services/                 *)
(* sharepoint_client.py) and of the download endpoint of the router        *)
(* (app/routers/sharepoint.py).                                            *)
(*                                                                         *)
(* Four specifications share the variables of the module:                  *)
(*   SpecNorm      _normalize_path and _encode_path on bounded paths       *)
(*   SpecUpload    SharePointClient.upload, one call                       *)
(*   SpecCache     _site_id / _drive_id under functools.lru_cache          *)
(*   SpecDownload  POST /sharepoint/download, one request                  *)
(* Strings are sequences of one-character strings.                         *)
(***************************************************************************)
EXTENDS Integers, Sequences, FiniteSets, TLC

VARIABLES
    \* ---- _normalize_path / _encode_path
    normPc, normPath, normOut, encOut,
    \* ---- upload
    upPc, target, upEnc, size, filePos, bytes_sent, chunks, smallPuts,
    sessionPosts, upload_url, upResult,
    \* ---- lru_cache of _site_id / _drive_id
    cacheSite, cacheDrive, thPc, thInst, thOp, siteLookups, driveLookups,
    \* ---- sp_download
    dlPc, dlPath, dlItem, cfgOk, gdu, itemCalls, httpStatus, remoteLen,
    delivered, transfer

normVars == <<normPc, normPath, normOut, encOut>>
upVars == <<upPc, target, upEnc, size, filePos, bytes_sent, chunks,
            smallPuts, sessionPosts, upload_url, upResult>>
cacheVars == <<cacheSite, cacheDrive, thPc, thInst, thOp, siteLookups,
               driveLookups>>
dlVars == <<dlPc, dlPath, dlItem, cfgOk, gdu, itemCalls, httpStatus,
            remoteLen, delivered, transfer>>
vars == <<normVars, upVars, cacheVars, dlVars>>

(***************************************************************************)
(* Bounds of the model.                                                    *)
(***************************************************************************)
MaxPieces == 4
MaxChunks == 4
NumClients == 2
NumThreads == 2
MaxLookups == 2
MaxBodyChunks == 2

(***************************************************************************)
(* Python string primitives.                                               *)
(***************************************************************************)
Whitespace == {" "}
Slash == {"/"}

UpperLetters == <<"A","B","C","D","E","F","G","H","I","J","K","L","M",
                  "N","O","P","Q","R","S","T","U","V","W","X","Y","Z">>
LowerLetters == <<"a","b","c","d","e","f","g","h","i","j","k","l","m",
                  "n","o","p","q","r","s","t","u","v","w","x","y","z">>

\* str.lower() on one character
LowerChar(c) ==
    IF \E i \in 1..26 : UpperLetters[i] = c
    THEN LowerLetters[CHOOSE i \in 1..26 : UpperLetters[i] = c]
    ELSE c

\* str.lower()
Lower(s) == [i \in 1..Len(s) |-> LowerChar(s[i])]

\* str.lstrip(cs)
RECURSIVE LStrip(_, _)
LStrip(s, cs) ==
    IF s # <<>> /\ Head(s) \in cs THEN LStrip(Tail(s), cs) ELSE s

\* str.rstrip(cs)
RECURSIVE RStrip(_, _)
RStrip(s, cs) ==
    IF s # <<>> /\ s[Len(s)] \in cs
    THEN RStrip(SubSeq(s, 1, Len(s) - 1), cs)
    ELSE s

\* str.strip(cs)
Strip(s, cs) == RStrip(LStrip(s, cs), cs)

\* str.startswith(pre)
StartsWith(s, pre) == Len(s) >= Len(pre) /\ SubSeq(s, 1, Len(pre)) = pre

\* s[n:]
DropPrefix(s, n) == SubSeq(s, n + 1, Len(s))

(***************************************************************************)
(* Settings and the literals of _normalize_path.                           *)
(***************************************************************************)
SITE_PATH == <<"/","s","i","t","e","s","/","L","o","y","a","l","t","y",
               "2","0","2","1">>

LibDocumentos == <<"d","o","c","u","m","e","n","t","o","s"," ",
                   "c","o","m","p","a","r","t","i","d","o","s","/">>
LibShared == <<"s","h","a","r","e","d"," ",
               "d","o","c","u","m","e","n","t","s","/">>

\* site_prefix = settings.SITE_PATH.strip("/").lower() + "/"
site_prefix == Lower(Strip(SITE_PATH, Slash)) \o <<"/">>

\* a faulty variant: the comparison without lower()
StripSiteCaseSensitive(p) ==
    IF StartsWith(p, site_prefix) THEN DropPrefix(p, Len(site_prefix)) ELSE p

\* if p.lower().startswith(site_prefix): p = p[len(site_prefix):]
StripSite(p) ==
    IF StartsWith(Lower(p), site_prefix)
    THEN DropPrefix(p, Len(site_prefix))
    ELSE p

\* for lib in (...): if p.lower().startswith(lib): p = p[len(lib):]; break
StripLibrary(p) ==
    IF StartsWith(Lower(p), LibDocumentos) THEN DropPrefix(p, Len(LibDocumentos))
    ELSE IF StartsWith(Lower(p), LibShared) THEN DropPrefix(p, Len(LibShared))
    ELSE p

\* p = (path or "").strip().lstrip("/")
TrimPath(path) == LStrip(Strip(path, Whitespace), Slash)

_normalize_path(path) == StripLibrary(StripSite(TrimPath(path)))

\* urllib.parse.quote(c, safe="/") on one character of the model's alphabet
QuoteChar(c) == IF c = " " THEN <<"%", "2", "0">> ELSE <<c>>

RECURSIVE Quote(_)
Quote(s) == IF s = <<>> THEN <<>> ELSE QuoteChar(Head(s)) \o Quote(Tail(s))

_encode_path(path) == Quote(Strip(path, Slash))

(***************************************************************************)
(* SpecNorm: the path functions applied to bounded inputs.                 *)
(***************************************************************************)
SiteMixed == <<"s","i","t","e","s","/","L","o","y","a","l","t","y",
               "2","0","2","1">>
SiteUpper == <<"S","I","T","E","S","/","l","o","y","a","l","t","y",
               "2","0","2","1">>
Pieces == { <<"/">>, <<" ">>, SiteMixed, SiteUpper,
            <<"S","h","a","r","e","d"," ","D","o","c","u","m","e","n","t","s",
              "/">>,
            <<"D","o","c","u","m","e","n","t","o","s"," ",
              "c","o","m","p","a","r","t","i","d","o","s","/">>,
            <<"S","K","U">> }

RECURSIVE PathsOf(_)
PathsOf(n) ==
    IF n = 0 THEN { <<>> }
    ELSE LET P == PathsOf(n - 1) IN P \cup { p \o q : p \in P, q \in Pieces }

Paths == PathsOf(MaxPieces)

NormalizeCall ==
    /\ normPc = "input"
    /\ normOut' = _normalize_path(normPath)
    /\ normPc' = "normalized"
    /\ UNCHANGED <<normPath, encOut, upVars, cacheVars, dlVars>>

EncodeCall ==
    /\ normPc = "normalized"
    /\ encOut' = _encode_path(normOut)
    /\ normPc' = "encoded"
    /\ UNCHANGED <<normPath, normOut, upVars, cacheVars, dlVars>>

(***************************************************************************)
(* SpecUpload: one call of SharePointClient.upload(fileobj, target_path,   *)
(* filename).  The buffer is its length; a request is its outcome.         *)
(***************************************************************************)
CHUNK_BASE == 320 * 1024
CHUNK_SIZE == 5 * CHUNK_BASE
SmallUploadLimit == 4 * 1024 * 1024

Min(a, b) == IF a <= b THEN a ELSE b

\* the status codes the remote service answers with
Statuses == {200, 201, 202, 204, 304, 404, 500}

\* requests.Response.raise_for_status(): HTTPError for 4xx and 5xx only
RaisesForStatus(st) == 400 <= st /\ st < 600

\* the buffer lengths tried: around the 4 MiB limit and around whole chunks
Sizes ==
    {0, 1, SmallUploadLimit - 1, SmallUploadLimit, SmallUploadLimit + 1}
    \cup { k * CHUNK_SIZE + d : k \in 3..MaxChunks, d \in {-1, 0, 1} }

FileName == <<"a", " ", "b">>
UploadTargets ==
    { <<>>,
      <<"/">> \o SiteMixed \o <<"/">> \o
      <<"S","h","a","r","e","d"," ","D","o","c","u","m","e","n","t","s">> \o
      <<"/","S","K","U","/">> }

\* target_path = normalize(target_path).strip("/");
\* full_path = f"{target_path}/{filename}" if target_path else filename
FullPath(t, f) ==
    LET tp == Strip(_normalize_path(t), Slash)
    IN  IF tp # <<>> THEN tp \o <<"/">> \o f ELSE f

\* a faulty variant: the limit itself goes to the chunked path
UseSmallUploadStrict(sz) == sz < SmallUploadLimit

\* if size <= 4 * 1024 * 1024
UseSmallUpload(sz) == sz <= SmallUploadLimit

\* a faulty variant: the rest of the buffer in one chunk
ChunkLenUnbounded(sz, sent) == sz - sent

\* min(CHUNK_SIZE, size - bytes_sent)
ChunkLen(sz, sent) == Min(CHUNK_SIZE, sz - sent)

\* fileobj.read(n) on a buffer of length sz at position pos
ReadLen(sz, pos, n) == Min(n, sz - pos)

\* if put.status_code in (200, 201)
IsItemResponse(st) == st \in {200, 201}

\* a faulty variant: the next range starts on the last byte sent
NextOffsetOverlapping(end) == end

\* bytes_sent = end + 1
NextOffset(end) == end + 1

Returned == [kind |-> "returned", msg |-> "item metadata"]
HTTPError == [kind |-> "HTTPError", msg |-> "raise_for_status"]
SiteError == [kind |-> "HTTPError", msg |-> "site lookup"]
KeyError == [kind |-> "KeyError", msg |-> "uploadUrl"]
TokenError == [kind |-> "RuntimeError", msg |-> "token"]
NoResult == [kind |-> "none", msg |-> ""]

\* a faulty variant: the exhausted loop returns as if an item had come
ExhaustedAsReturn == Returned

\* raise RuntimeError("Sesion de upload finalizo sin respuesta de item")
ExhaustedError ==
    [kind |-> "RuntimeError",
     msg |-> "Sesion de upload finalizo sin respuesta de item"]

\* what precedes a request of upload: self._site_id() and self._headers()
Prerequisites == {"ok", "site_error", "token_error"}
PrerequisiteError(pre) == IF pre = "site_error" THEN SiteError ELSE TokenError

\* lines 191-199: the path, the size of the buffer, the choice of a strategy
UploadMeasure ==
    /\ upPc = "start"
    /\ upEnc' = _encode_path(FullPath(target, FileName))
    /\ filePos' = 0
    /\ upPc' = IF UseSmallUpload(size) THEN "small" ELSE "session"
    /\ UNCHANGED <<target, size, bytes_sent, chunks, smallPuts, sessionPosts,
                   upload_url, upResult, normVars, cacheVars, dlVars>>

\* lines 200-203: one PUT of the whole buffer
SmallUpload ==
    /\ upPc = "small"
    /\ \E pre \in Prerequisites, st \in Statuses :
         IF pre # "ok"
         THEN /\ upResult' = PrerequisiteError(pre)
              /\ UNCHANGED <<smallPuts, filePos>>
         ELSE /\ smallPuts' = smallPuts + 1
              /\ filePos' = filePos + ReadLen(size, filePos, size - filePos)
              /\ upResult' = IF RaisesForStatus(st) THEN HTTPError ELSE Returned
    /\ upPc' = "done"
    /\ UNCHANGED <<target, upEnc, size, bytes_sent, chunks, sessionPosts,
                   upload_url, normVars, cacheVars, dlVars>>

\* lines 206-211: the upload session
SessionCreate ==
    /\ upPc = "session"
    /\ \E pre \in Prerequisites, st \in Statuses, hasUrl \in BOOLEAN :
         IF pre # "ok"
         THEN /\ upResult' = PrerequisiteError(pre)
              /\ upPc' = "done"
              /\ UNCHANGED <<sessionPosts, upload_url>>
         ELSE /\ sessionPosts' = sessionPosts + 1
              /\ IF RaisesForStatus(st)
                 THEN /\ upResult' = HTTPError
                      /\ upPc' = "done"
                      /\ UNCHANGED upload_url
                 ELSE IF ~hasUrl
                 THEN /\ upResult' = KeyError
                      /\ upPc' = "done"
                      /\ UNCHANGED upload_url
                 ELSE /\ upResult' = NoResult
                      /\ upPc' = "chunk"
                      /\ upload_url' = "<upload-url>"
    /\ bytes_sent' = 0
    /\ UNCHANGED <<target, upEnc, size, filePos, chunks, smallPuts,
                   normVars, cacheVars, dlVars>>

\* lines 212-224: one iteration of the loop that reads a non-empty chunk
ChunkPut ==
    /\ upPc = "chunk"
    /\ LET len == ReadLen(size, filePos, ChunkLen(size, bytes_sent))
           start == bytes_sent
           end == bytes_sent + len - 1
       IN  /\ len > 0
           /\ filePos' = filePos + len
           /\ \E st \in Statuses :
                LET stop == IsItemResponse(st)
                            \/ (st # 202 /\ RaisesForStatus(st))
                    after == IF stop THEN bytes_sent ELSE NextOffset(end)
                IN  /\ chunks' = Append(chunks,
                          [start |-> start, end |-> end, len |-> len,
                           total |-> size, status |-> st, after |-> after])
                    /\ bytes_sent' = after
                    /\ upResult' = IF IsItemResponse(st) THEN Returned
                                   ELSE IF stop THEN HTTPError ELSE NoResult
                    /\ upPc' = IF stop THEN "done" ELSE "chunk"
    /\ UNCHANGED <<target, upEnc, size, smallPuts, sessionPosts, upload_url,
                   normVars, cacheVars, dlVars>>

\* lines 213-215 and 226: the read returns nothing, the loop breaks
ChunkLoopExhausted ==
    /\ upPc = "chunk"
    /\ ReadLen(size, filePos, ChunkLen(size, bytes_sent)) <= 0
    /\ upResult' = ExhaustedError
    /\ upPc' = "done"
    /\ UNCHANGED <<target, upEnc, size, filePos, bytes_sent, chunks, smallPuts,
                   sessionPosts, upload_url, normVars, cacheVars, dlVars>>

(***************************************************************************)
(* SpecCache: _site_id and _drive_id.  functools.lru_cache(maxsize=1)      *)
(* decorates the two functions of the class, so each function has ONE      *)
(* cache for all instances, keyed by self and holding one entry.  The      *)
(* wrapper looks the key up, calls the function on a miss (the network     *)
(* call releases the interpreter lock) and stores the result afterwards.   *)
(***************************************************************************)
Clients == 1..NumClients
Threads == 1..NumThreads
NoClient == 0

\* maxsize=1: storing a key evicts whatever the cache held
LruStore(cache, key) == key

\* the wrapper's lookup
LruHit(cache, key) == cache = key

\* a caller invokes client._site_id(): the wrapper's cache lookup
CallSiteId(t, c) ==
    /\ thPc[t] = "idle"
    /\ siteLookups[c] < MaxLookups
    /\ thInst' = [thInst EXCEPT ![t] = c]
    /\ thOp' = [thOp EXCEPT ![t] = "site"]
    /\ thPc' = [thPc EXCEPT ![t] =
                  IF LruHit(cacheSite, c) THEN "idle" ELSE "site_get"]
    /\ UNCHANGED <<cacheSite, cacheDrive, siteLookups, driveLookups,
                   normVars, upVars, dlVars>>

\* a caller invokes client._drive_id(): the wrapper's cache lookup; on a
\* miss the body starts with self._site_id() (line 92)
CallDriveId(t, c) ==
    /\ thPc[t] = "idle"
    /\ driveLookups[c] < MaxLookups
    /\ siteLookups[c] < MaxLookups
    /\ thInst' = [thInst EXCEPT ![t] = c]
    /\ thOp' = [thOp EXCEPT ![t] = "drive"]
    /\ thPc' = [thPc EXCEPT ![t] =
                  IF LruHit(cacheDrive, c) THEN "idle"
                  ELSE IF LruHit(cacheSite, c) THEN "drive_get"
                  ELSE "site_get"]
    /\ UNCHANGED <<cacheSite, cacheDrive, siteLookups, driveLookups,
                   normVars, upVars, dlVars>>

\* lines 85-88: the GET of the site, then the wrapper stores the result
SiteLookup(t) ==
    /\ thPc[t] = "site_get"
    /\ \E ok \in BOOLEAN :
         IF ok
         THEN /\ siteLookups' =
                   [siteLookups EXCEPT ![thInst[t]] = @ + 1]
              /\ cacheSite' = LruStore(cacheSite, thInst[t])
              /\ thPc' = [thPc EXCEPT ![t] =
                            IF thOp[t] = "drive" THEN "drive_get" ELSE "idle"]
         ELSE /\ thPc' = [thPc EXCEPT ![t] = "idle"]
              /\ UNCHANGED <<siteLookups, cacheSite>>
    /\ UNCHANGED <<cacheDrive, thInst, thOp, driveLookups,
                   normVars, upVars, dlVars>>

\* lines 93-95: the GET of the drive, then the wrapper stores the result
DriveLookup(t) ==
    /\ thPc[t] = "drive_get"
    /\ \E ok \in BOOLEAN :
         IF ok
         THEN /\ driveLookups' =
                   [driveLookups EXCEPT ![thInst[t]] = @ + 1]
              /\ cacheDrive' = LruStore(cacheDrive, thInst[t])
         ELSE UNCHANGED <<driveLookups, cacheDrive>>
    /\ thPc' = [thPc EXCEPT ![t] = "idle"]
    /\ UNCHANGED <<cacheSite, thInst, thOp, siteLookups,
                   normVars, upVars, dlVars>>

(***************************************************************************)
(* SpecDownload: one request POST /sharepoint/download (sp_download), with *)
(* SharePointClient.stream_file and get_download_url.  An Optional[str]    *)
(* is a record: None, or a string.                                         *)
(***************************************************************************)
PyNone == [none |-> TRUE, s |-> <<>>]
Str(s) == [none |-> FALSE, s |-> s]

\* Python truth of an Optional[str]: None and "" are false
Truthy(v) == ~v.none /\ v.s # <<>>

PathArgs == { PyNone, Str(<<>>),
              Str(<<"S","h","a","r","e","d"," ","D","o","c","u","m","e","n",
                    "t","s","/","a"," ","b">>) }
ItemArgs == { PyNone, Str(<<>>), Str(<<"0","1","A","B">>) }

DirectUrl == <<"https://tenant.sharepoint.com/download?tempauth">>
\* the item metadata: "@microsoft.graph.downloadUrl" absent, empty or set;
\* "name" absent or set
Metas == { [dl |-> d, name |-> n] :
             d \in {PyNone, Str(<<>>), Str(DirectUrl)},
             n \in {PyNone, Str(<<"f">>)} }
NoMeta == [dl |-> PyNone, name |-> PyNone]

SiteId == "<site-id>"
DriveId == "<drive-id>"

\* line 148
PathContentUrl(path) ==
    <<"https://graph.microsoft.com/v1.0/sites/", SiteId, "/drive/root:/">>
    \o _encode_path(_normalize_path(path)) \o <<":/content">>

\* line 150
ItemContentUrl(item_id) ==
    <<"https://graph.microsoft.com/v1.0/drives/", DriveId, "/items/">>
    \o item_id \o <<"/content">>

\* line 141: if not path and not item_id: raise ValueError
NoSelector(path, item_id) == ~Truthy(path) /\ ~Truthy(item_id)

\* a faulty variant: `if dl_url is None` in place of `if not dl_url`
DownloadUrlIfNotNone(path, item_id, info) ==
    IF ~info.dl.none THEN info.dl.s
    ELSE IF Truthy(path) THEN PathContentUrl(path.s)
    ELSE ItemContentUrl(item_id.s)

\* lines 144-150: the URL get_download_url returns for metadata info
DownloadUrl(path, item_id, info) ==
    IF Truthy(info.dl) THEN info.dl.s
    ELSE IF Truthy(path) THEN PathContentUrl(path.s)
    ELSE ItemContentUrl(item_id.s)

\* line 151: info.get("name", "download.bin")
DownloadName(info) ==
    IF info.name.none THEN <<"download.bin">> ELSE info.name.s

NoCall == [called |-> FALSE, by |-> "", outcome |-> "none", url |-> <<>>,
           name |-> <<>>, info |-> NoMeta, callsBefore |-> 0,
           callsAfter |-> 0]

\* get_download_url(path=, item_id=) called by `by`, with `calls` remote
\* calls made so far; resp is the outcome of the metadata request
\* ("ok", "error"), info its body, fallbackOk whether the identifier the
\* synthesized URL needs is obtained
GetDownloadUrl(by, path, item_id, calls, resp, info, fallbackOk) ==
    IF NoSelector(path, item_id)
    THEN [called |-> TRUE, by |-> by, outcome |-> "ValueError", url |-> <<>>,
          name |-> <<>>, info |-> NoMeta, callsBefore |-> calls,
          callsAfter |-> calls]
    ELSE IF resp # "ok"
    THEN [called |-> TRUE, by |-> by, outcome |-> "HTTPError", url |-> <<>>,
          name |-> <<>>, info |-> NoMeta, callsBefore |-> calls,
          callsAfter |-> calls + 1]
    ELSE IF ~Truthy(info.dl) /\ ~fallbackOk
    THEN [called |-> TRUE, by |-> by, outcome |-> "HTTPError", url |-> <<>>,
          name |-> <<>>, info |-> info, callsBefore |-> calls,
          callsAfter |-> calls + 2]
    ELSE [called |-> TRUE, by |-> by, outcome |-> "returned",
          url |-> DownloadUrl(path, item_id, info),
          name |-> DownloadName(info), info |-> info,
          callsBefore |-> calls, callsAfter |-> calls + 1]

\* line 54-55: except Exception -> HTTPException(status_code=400)
Fail400 == /\ httpStatus' = 400
           /\ dlPc' = "done"

\* line 49: SharePointClient() checks the configuration
DlConstruct ==
    /\ dlPc = "start"
    /\ IF cfgOk THEN dlPc' = "stream_gdu" /\ UNCHANGED httpStatus
       ELSE Fail400
    /\ UNCHANGED <<dlPath, dlItem, cfgOk, gdu, itemCalls, remoteLen,
                   delivered, transfer, normVars, upVars, cacheVars>>

\* line 50, 154: stream_file calls get_download_url
DlStreamGetUrl ==
    /\ dlPc = "stream_gdu"
    /\ \E resp \in {"ok", "error"}, info \in Metas, fb \in BOOLEAN :
         /\ gdu' = GetDownloadUrl("stream_file", dlPath, dlItem, itemCalls,
                                  resp, info, fb)
         /\ itemCalls' = gdu'.callsAfter
         /\ IF gdu'.outcome = "returned"
            THEN dlPc' = "stream_get" /\ UNCHANGED httpStatus
            ELSE Fail400
    /\ UNCHANGED <<dlPath, dlItem, cfgOk, remoteLen, delivered, transfer,
                   normVars, upVars, cacheVars>>

\* lines 155-157: the GET of the content with stream=True
DlStreamOpen ==
    /\ dlPc = "stream_get"
    /\ itemCalls' = itemCalls + 1
    /\ \E st \in Statuses :
         IF RaisesForStatus(st) THEN Fail400
         ELSE dlPc' = "endpoint_gdu" /\ UNCHANGED httpStatus
    /\ UNCHANGED <<dlPath, dlItem, cfgOk, gdu, remoteLen, delivered,
                   transfer, normVars, upVars, cacheVars>>

\* lines 51-53: get_download_url again for the name, then the
\* StreamingResponse is returned: the status line 200 goes out
DlEndpointGetUrl ==
    /\ dlPc = "endpoint_gdu"
    /\ \E resp \in {"ok", "error"}, info \in Metas, fb \in BOOLEAN :
         /\ gdu' = GetDownloadUrl("sp_download", dlPath, dlItem, itemCalls,
                                  resp, info, fb)
         /\ itemCalls' = gdu'.callsAfter
         /\ IF gdu'.outcome = "returned"
            THEN dlPc' = "streaming" /\ httpStatus' = 200
            ELSE Fail400
    /\ UNCHANGED <<dlPath, dlItem, cfgOk, remoteLen, delivered, transfer,
                   normVars, upVars, cacheVars>>

\* the framework pulls one chunk of iter_content and sends it
DlPullChunk ==
    /\ dlPc = "streaming"
    /\ delivered < remoteLen
    /\ delivered' = delivered + 1
    /\ UNCHANGED <<dlPc, dlPath, dlItem, cfgOk, gdu, itemCalls, httpStatus,
                   remoteLen, transfer, normVars, upVars, cacheVars>>

\* the body is exhausted: the iterator ends
DlPullEnd ==
    /\ dlPc = "streaming"
    /\ delivered = remoteLen
    /\ transfer' = "complete"
    /\ dlPc' = "done"
    /\ UNCHANGED <<dlPath, dlItem, cfgOk, gdu, itemCalls, httpStatus,
                   remoteLen, delivered, normVars, upVars, cacheVars>>

\* the remote transfer breaks before the body is complete: iter_content
\* raises, or ends early, outside the try block of sp_download and after
\* the status line was sent
DlPullBroken ==
    /\ dlPc = "streaming"
    /\ delivered < remoteLen
    /\ \E how \in {"raised", "truncated"} : transfer' = how
    /\ dlPc' = "done"
    /\ UNCHANGED <<dlPath, dlItem, cfgOk, gdu, itemCalls, httpStatus,
                   remoteLen, delivered, normVars, upVars, cacheVars>>

(***************************************************************************)
(* The specifications.                                                     *)
(***************************************************************************)
\* Each specification starts one component; the others stay switched off.
NormInit ==
    /\ normPc = "input"
    /\ normPath \in Paths
    /\ normOut = <<>>
    /\ encOut = <<>>
    /\ upPc = "off"
    /\ target = <<>>
    /\ upEnc = <<>>
    /\ size = 0
    /\ filePos = 0
    /\ bytes_sent = 0
    /\ chunks = <<>>
    /\ smallPuts = 0
    /\ sessionPosts = 0
    /\ upload_url = ""
    /\ upResult = NoResult
    /\ cacheSite = NoClient
    /\ cacheDrive = NoClient
    /\ thPc = <<>>
    /\ thInst = <<>>
    /\ thOp = <<>>
    /\ siteLookups = <<>>
    /\ driveLookups = <<>>
    /\ dlPc = "off"
    /\ dlPath = PyNone
    /\ dlItem = PyNone
    /\ cfgOk = TRUE
    /\ gdu = NoCall
    /\ itemCalls = 0
    /\ httpStatus = 0
    /\ remoteLen = 0
    /\ delivered = 0
    /\ transfer = "none"

UploadInit ==
    /\ normPc = "off"
    /\ normPath = <<>>
    /\ normOut = <<>>
    /\ encOut = <<>>
    /\ upPc = "start"
    /\ target \in UploadTargets
    /\ size \in Sizes
    /\ filePos \in {0, size}
    /\ upEnc = <<>>
    /\ bytes_sent = 0
    /\ chunks = <<>>
    /\ smallPuts = 0
    /\ sessionPosts = 0
    /\ upload_url = ""
    /\ upResult = NoResult
    /\ cacheSite = NoClient
    /\ cacheDrive = NoClient
    /\ thPc = <<>>
    /\ thInst = <<>>
    /\ thOp = <<>>
    /\ siteLookups = <<>>
    /\ driveLookups = <<>>
    /\ dlPc = "off"
    /\ dlPath = PyNone
    /\ dlItem = PyNone
    /\ cfgOk = TRUE
    /\ gdu = NoCall
    /\ itemCalls = 0
    /\ httpStatus = 0
    /\ remoteLen = 0
    /\ delivered = 0
    /\ transfer = "none"

CacheInit ==
    /\ normPc = "off"
    /\ normPath = <<>>
    /\ normOut = <<>>
    /\ encOut = <<>>
    /\ upPc = "off"
    /\ target = <<>>
    /\ upEnc = <<>>
    /\ size = 0
    /\ filePos = 0
    /\ bytes_sent = 0
    /\ chunks = <<>>
    /\ smallPuts = 0
    /\ sessionPosts = 0
    /\ upload_url = ""
    /\ upResult = NoResult
    /\ cacheSite = NoClient
    /\ cacheDrive = NoClient
    /\ thPc = [t \in Threads |-> "idle"]
    /\ thInst = [t \in Threads |-> 1]
    /\ thOp = [t \in Threads |-> "site"]
    /\ siteLookups = [c \in Clients |-> 0]
    /\ driveLookups = [c \in Clients |-> 0]
    /\ dlPc = "off"
    /\ dlPath = PyNone
    /\ dlItem = PyNone
    /\ cfgOk = TRUE
    /\ gdu = NoCall
    /\ itemCalls = 0
    /\ httpStatus = 0
    /\ remoteLen = 0
    /\ delivered = 0
    /\ transfer = "none"

DownloadInit ==
    /\ normPc = "off"
    /\ normPath = <<>>
    /\ normOut = <<>>
    /\ encOut = <<>>
    /\ upPc = "off"
    /\ target = <<>>
    /\ upEnc = <<>>
    /\ size = 0
    /\ filePos = 0
    /\ bytes_sent = 0
    /\ chunks = <<>>
    /\ smallPuts = 0
    /\ sessionPosts = 0
    /\ upload_url = ""
    /\ upResult = NoResult
    /\ cacheSite = NoClient
    /\ cacheDrive = NoClient
    /\ thPc = <<>>
    /\ thInst = <<>>
    /\ thOp = <<>>
    /\ siteLookups = <<>>
    /\ driveLookups = <<>>
    /\ dlPc = "start"
    /\ dlPath \in PathArgs
    /\ dlItem \in ItemArgs
    /\ cfgOk \in BOOLEAN
    /\ remoteLen \in 0..MaxBodyChunks
    /\ gdu = NoCall
    /\ itemCalls = 0
    /\ httpStatus = 0
    /\ delivered = 0
    /\ transfer = "none"

NormNext == NormalizeCall \/ EncodeCall
SpecNorm ==
    /\ NormInit
    /\ [][NormNext]_vars

UploadNext ==
    \/ UploadMeasure
    \/ SmallUpload
    \/ SessionCreate
    \/ ChunkPut
    \/ ChunkLoopExhausted
SpecUpload ==
    /\ UploadInit
    /\ [][UploadNext]_vars

CacheNext ==
    \E t \in Threads :
        \/ \E c \in Clients : CallSiteId(t, c)
        \/ \E c \in Clients : CallDriveId(t, c)
        \/ SiteLookup(t)
        \/ DriveLookup(t)
SpecCache ==
    /\ CacheInit
    /\ [][CacheNext]_vars

DownloadNext ==
    \/ DlConstruct
    \/ DlStreamGetUrl
    \/ DlStreamOpen
    \/ DlEndpointGetUrl
    \/ DlPullChunk
    \/ DlPullEnd
    \/ DlPullBroken
SpecDownload ==
    /\ DownloadInit
    /\ [][DownloadNext]_vars

(***************************************************************************)
(* Claims about upload (SpecUpload).                                       *)
(***************************************************************************)
CeilDiv(a, b) == (a + b - 1) \div b

RECURSIVE SumLen(_)
SumLen(cs) == IF cs = <<>> THEN 0 ELSE Head(cs).len + SumLen(Tail(cs))

\* the Content-Range ranges follow one another without gap or overlap
Contiguous(cs) == \A i \in 1..(Len(cs) - 1) : cs[i + 1].start = cs[i].end + 1

Chunked == size > 4 * 1024 * 1024

PrerequisiteFailed == upResult \in {SiteError, TokenError}

\* C1, as stated: when upload has ended, a buffer of at most 4 MiB was sent
\* with exactly one PUT and no upload session; a larger buffer created an
\* upload session and, once the session was created, sent at least one
\* chunk PUT.
C1_Original ==
    upPc = "done" =>
        IF size <= 4 * 1024 * 1024
        THEN smallPuts = 1 /\ sessionPosts = 0 /\ chunks = <<>>
        ELSE /\ sessionPosts = 1
             /\ smallPuts = 0
             /\ (upload_url # "" => Len(chunks) >= 1)

\* C1, amended: the strategy depends on the size alone and the two
\* strategies never mix; when the site identifier and the token that precede
\* the request are obtained, a buffer of at most 4 MiB (4 MiB and 0
\* included) is sent with exactly one PUT and no session, and a larger one
\* creates a session and, once it is created, sends at least one chunk PUT;
\* when they are not obtained, no PUT and no session request is issued.
C1_DispatchBySize ==
    /\ (size <= 4 * 1024 * 1024 => sessionPosts = 0 /\ chunks = <<>>)
    /\ (size > 4 * 1024 * 1024 => smallPuts = 0)
    /\ (upPc = "done" /\ PrerequisiteFailed =>
            smallPuts = 0 /\ sessionPosts = 0 /\ chunks = <<>>)
    /\ (upPc = "done" /\ ~PrerequisiteFailed =>
            IF size <= 4 * 1024 * 1024
            THEN smallPuts = 1
            ELSE sessionPosts = 1 /\ (upload_url # "" => Len(chunks) >= 1))

C1_Witness ==
    /\ upPc = "done"
    /\ size = 4 * 1024 * 1024
    /\ smallPuts = 1
    /\ sessionPosts = 0
    /\ upResult = Returned

\* C2, as stated: in every chunked upload that returns item metadata, for
\* every sequence of responses, the chunk lengths sum to the size and the
\* ranges are contiguous, from 0 to size-1.
C2_Original ==
    upPc = "done" /\ Chunked /\ upResult = Returned =>
        /\ SumLen(chunks) = size
        /\ Contiguous(chunks)
        /\ chunks[1].start = 0
        /\ chunks[Len(chunks)].end = size - 1

\* C2, amended: in every chunked upload, for every sequence of responses,
\* the ranges of the chunk PUTs are contiguous and non-overlapping, the
\* first starts at 0, each range is as long as its chunk and names the total
\* size, and the lengths sum to the end of the last range plus one, which
\* never exceeds the size; the sum is the size, and the last range ends at
\* size-1, when ceil(size / CHUNK_SIZE) chunks were sent, that is when the
\* 200/201 answers the final chunk.  A 200/201 to an earlier chunk returns
\* metadata with only a prefix of the buffer sent.
C2_RangesContiguous ==
    Chunked /\ chunks # <<>> =>
        /\ Contiguous(chunks)
        /\ chunks[1].start = 0
        /\ \A i \in 1..Len(chunks) :
             /\ chunks[i].end - chunks[i].start + 1 = chunks[i].len
             /\ chunks[i].total = size
        /\ SumLen(chunks) = chunks[Len(chunks)].end + 1
        /\ SumLen(chunks) <= size
        /\ (Len(chunks) = CeilDiv(size, CHUNK_SIZE) =>
                /\ SumLen(chunks) = size
                /\ chunks[Len(chunks)].end = size - 1)

C2_Witness ==
    /\ upPc = "done"
    /\ Chunked
    /\ upResult = Returned
    /\ Len(chunks) = CeilDiv(size, CHUNK_SIZE)
    /\ Len(chunks) >= 3
    /\ SumLen(chunks) = size
    /\ \A i \in 1..(Len(chunks) - 1) : chunks[i].status = 202

\* C3, as stated: a chunk PUT answered with a status other than 200, 201 or
\* 202 aborts the upload with a RemoteError: the offset is not advanced and
\* no chunk PUT follows it; 202 advances the offset by the chunk length and
\* continues; 200/201 ends the upload with the item metadata.
C3_OtherStatusAborts ==
    \A i \in 1..Len(chunks) :
        LET c == chunks[i] IN
        /\ (c.status \notin {200, 201, 202} =>
                /\ i = Len(chunks)
                /\ c.after = c.start
                /\ upPc = "done"
                /\ upResult.kind = "HTTPError")
        /\ (c.status = 202 => c.after = c.start + c.len)
        /\ (c.status \in {200, 201} =>
                i = Len(chunks) /\ upPc = "done" /\ upResult = Returned)

AllAccepted == \A i \in 1..Len(chunks) : chunks[i].status = 202

\* C8: a chunked upload whose chunk PUTs are all answered 202 until every
\* byte is sent ends with the RuntimeError "Sesion de upload finalizo sin
\* respuesta de item": not the HTTPError of a rejected request, and never
\* item metadata; with every byte sent no further PUT is issued.
C8_ExhaustedIsLogicError ==
    Chunked /\ chunks # <<>> /\ AllAccepted /\ bytes_sent = size =>
        /\ (upPc = "chunk" => ENABLED ChunkLoopExhausted /\ ~ENABLED ChunkPut)
        /\ (upPc = "done" =>
                /\ upResult.kind = "RuntimeError"
                /\ upResult.msg =
                       "Sesion de upload finalizo sin respuesta de item"
                /\ upResult.kind # HTTPError.kind
                /\ upResult # Returned)

C8_Witness ==
    /\ upPc = "done"
    /\ Chunked
    /\ Len(chunks) >= 3
    /\ AllAccepted
    /\ bytes_sent = size
    /\ upResult.kind = "RuntimeError"

C4_LookupAtMostOnce ==
    \A c \in Clients : siteLookups[c] <= 1 /\ driveLookups[c] <= 1

(***************************************************************************)
(* Claim about _normalize_path (SpecNorm).                                 *)
(***************************************************************************)
\* the configured site-path segment, without its slashes
SiteSegment == Strip(SITE_PATH, Slash)

\* p begins with the site-path segment, in any letter case, with or without
\* leading slashes
BeginsWithSitePath(p) ==
    LET q == LStrip(p, Slash)
    IN  /\ StartsWith(Lower(q), Lower(SiteSegment))
        /\ (Len(q) = Len(SiteSegment) \/ q[Len(SiteSegment) + 1] = "/")

\* p with that prefix removed
WithoutSitePath(p) == DropPrefix(LStrip(p, Slash), Len(SiteSegment))

\* C5, as stated: for every path p that begins with the site-path segment
\* (any case, with or without leading slashes), normalizing p gives what
\* normalizing p without that prefix gives.
C5_Original ==
    normPc # "input" /\ BeginsWithSitePath(normPath) =>
        normOut = _normalize_path(WithoutSitePath(normPath))

\* the rest of p after the prefix and the slash that ends it
AfterSitePath(p) == DropPrefix(WithoutSitePath(p), 1)

\* the rest is in normal form as far as the first steps of _normalize_path
\* go: no leading whitespace or slash, no second site-path prefix
RestIsPlain(r) ==
    /\ (r # <<>> => Head(r) \notin (Whitespace \cup Slash))
    /\ ~StartsWith(Lower(r), Lower(SiteSegment) \o <<"/">>)

\* C5, amended: for every path p that begins (in any letter case, with or
\* without leading slashes) with the site-path segment followed by "/",
\* where the rest of p does not itself begin with whitespace, a slash or the
\* site-path segment again, normalizing p gives what normalizing p without
\* that prefix gives.  The prefix is removed once, and only with its
\* closing slash; what follows it is not trimmed again.
C5_SitePrefixRemoved ==
    /\ normPc # "input"
    /\ BeginsWithSitePath(normPath)
    /\ WithoutSitePath(normPath) # <<>>
    /\ RestIsPlain(AfterSitePath(normPath))
    => normOut = _normalize_path(WithoutSitePath(normPath))

C5_Witness ==
    /\ normPc = "normalized"
    /\ BeginsWithSitePath(normPath)
    /\ Head(normPath) = "S"
    /\ RestIsPlain(AfterSitePath(normPath))
    /\ normOut = <<"S", "K", "U">>
    /\ Len(AfterSitePath(normPath)) > 3

(***************************************************************************)
(* Claims about the download (SpecDownload).                               *)
(***************************************************************************)
IsGiven(v) == ~v.none /\ Len(v.s) > 0

\* C6: get_download_url never returns an empty URL.  With neither path nor
\* item_id it fails with ValueError before any remote call; with a selector
\* it returns the direct download URL of the metadata when that is present
\* and non-empty, and otherwise the content-endpoint URL built from the path
\* (if given) or else from the item id.
C6_UrlNeverEmpty ==
    gdu.called =>
        /\ (~IsGiven(dlPath) /\ ~IsGiven(dlItem) =>
                /\ gdu.outcome = "ValueError"
                /\ gdu.callsAfter = gdu.callsBefore
                /\ itemCalls = 0)
        /\ (gdu.outcome = "returned" =>
                /\ IsGiven(dlPath) \/ IsGiven(dlItem)
                /\ gdu.url # <<>>
                /\ (IsGiven(gdu.info.dl) => gdu.url = gdu.info.dl.s)
                /\ (~IsGiven(gdu.info.dl) =>
                        /\ gdu.url[Len(gdu.url)] \in {":/content", "/content"}
                        /\ gdu.url = IF IsGiven(dlPath)
                                     THEN PathContentUrl(dlPath.s)
                                     ELSE ItemContentUrl(dlItem.s)))

C6_Witness ==
    /\ gdu.called
    /\ gdu.outcome = "returned"
    /\ gdu.info.dl = Str(<<>>)
    /\ ~IsGiven(dlPath)
    /\ gdu.url = ItemContentUrl(dlItem.s)

\* C7, as stated: every internal failure of POST /sharepoint/download
\* reaches the HTTP caller as a 400, a remote transfer that fails or is
\* truncated after the stream started included; the caller never receives a
\* successful response with a short body.
C7_FailureIsDetected ==
    dlPc = "done" =>
        \/ httpStatus = 400
        \/ httpStatus = 200 /\ transfer = "complete" /\ delivered = remoteLen

\* C9, as stated: an item-addressing operation proceeds to a remote call
\* only when exactly one of path and item_id was supplied.
C9_ExactlyOneSelector ==
    itemCalls > 0 => (IsGiven(dlPath) /\ ~IsGiven(dlItem))
                     \/ (~IsGiven(dlPath) /\ IsGiven(dlItem))


====
